---- MODULE Spec2Model ----
(***************************************************************************)
(* A model of the logcat session of AndroidAdb (src/android_adb.py): the   *)
(* process handle self.__logcat, the configured exit lines, the processes  *)
(* spawned by start_logcat, and the accumulation loop of                   *)
(* read_logcat_while_lines.                                                *)
(*                                                                         *)
(* Text is modelled as sequences of one-character strings.  A pattern is a *)
(* literal (no regex metacharacters), so re.search(p, s) is "p occurs in   *)
(* s"; a compiled '|'.join(...) is the set of its alternatives.            *)
(* An optional value (Python None or a value) is <<>> or <<v>>.            *)
(***************************************************************************)
EXTENDS Integers, Sequences, FiniteSets, TLC

\* ---------------------------------------------------------------- bounds
\* Lines a single read_logcat_while_lines call may read.
MaxReads == 3
\* Processes one AndroidAdb object may spawn.
MaxProcs == 2
\* Largest timeout argument (seconds); the clock is observed up to one more.
MaxTimeout == 1
\* Longest caller list (end_lines after the exit lines were appended).
MaxEndLen == 2

\* ------------------------------------------------------------ input sets
\* Raw lines a running logcat process can write (newline removed).
Lines == { <<" ">>, <<"a">>, <<" ", "a">>, <<"b", " ">> }
\* Patterns are literals; <<>> is the empty pattern ''.
\* end_lines lists a caller may build.
EndLinesChoices ==
    { <<>>, << <<"a">> >>, << <<"b">> >>, << <<>> >>, << <<"b">>, <<"b">> >> }
\* start_lines arguments: None, [], ['a'], ['b'], [''].
StartLinesChoices ==
    { <<>>, << <<>> >>, << << <<"a">> >> >>, << << <<"b">> >> >>,
      << << <<>> >> >> }
\* Lists given to set_logcat_exit_lines.
ExitLinesChoices == { <<>>, << <<"b">> >> }
\* timeout arguments: None, 0, and the largest one.
TimeoutChoices == { <<>>, <<0>>, <<MaxTimeout>> }
\* Seconds a blocking readline may take.
ReadDelays == {0, 1}

\* ---------------------------------------------------------------- Option
None == <<>>
Some(v) == <<v>>
Val(o) == o[1]

Range(s) == { s[i] : i \in DOMAIN s }
Last(s) == s[Len(s)]

VARIABLES
    logcat,         \* self.__logcat: 0 (None) or the index of a process in procs
    procs,          \* processes spawned by Popen: [running, terminated]
    exit_lines,     \* self.__exit_lines: None or Some(list)
    end_lines,      \* the caller's end_lines list object (mutated in place)
    own_lines,      \* what the caller itself put into that list object
    pc,             \* "idle", or "loop" inside read_logcat_while_lines
    end_arg,        \* contents of end_lines when the current call was entered
    exit_arg,       \* self.__exit_lines when the current call was entered
    start_lines,    \* the call's start_lines argument: None or Some(list)
    timeout,        \* the call's timeout argument: None or Some(seconds)
    pattern_start,  \* None or Some(set of alternatives)
    pattern_end,    \* set of alternatives of the compiled stop regex
    can_start,
    found,
    result,
    elapsed,        \* time.time() - start_time
    lines_read,     \* every log_str the loop has read, in order
    eof_read,       \* TRUE once a readline of this call returned end-of-stream
    op,             \* the last method called
    outcome         \* how it ended: "ok", "return", or the exception's name

adb_vars == << logcat, procs, exit_lines, end_lines, own_lines, pc, end_arg,
              exit_arg, start_lines, timeout, pattern_start, pattern_end,
              can_start, found, result, elapsed, lines_read, eof_read, op, outcome >>

\* AndroidSdk (android_sdk.py), an object of its own
VARIABLES
    android_sdk,    \* the fields __sdk, __adb, __aapt, __zipalign, __emulator
    select_last,    \* self.__select_last
    sdk_before,     \* the same fields when the last method was called
    sdk_op,         \* the last AndroidSdk method called
    sdk_args,       \* its arguments
    sdk_outcome,    \* "ok" or the name of the exception it raised
    sdk_returned    \* what the last getter returned

sdk_vars == << android_sdk, select_last, sdk_before, sdk_op, sdk_args,
               sdk_outcome, sdk_returned >>

\* adb.Adb (adb.py), an object of its own
VARIABLES
    self_adb,       \* self._adb: the path of the adb binary
    self_device,    \* self._device: None or Some(serial)
    self_shell,     \* self._shell: None or Some(command prefix)
    self_op,        \* the last Adb method called
    self_returned   \* what it returned: None or Some(value)

cli_vars == << self_adb, self_device, self_shell, self_op, self_returned >>

vars == << adb_vars, sdk_vars, cli_vars >>

\* self.__logcat = None
NoProc == 0

\* ------------------------------------------------------------ pure parts
Whitespace == { " " }

RECURSIVE lstrip(_)
lstrip(s) == IF s # <<>> /\ Head(s) \in Whitespace THEN lstrip(Tail(s)) ELSE s

RECURSIVE rstrip(_)
rstrip(s) ==
    IF s # <<>> /\ Last(s) \in Whitespace
    THEN rstrip(SubSeq(s, 1, Len(s) - 1))
    ELSE s

\* str.strip()
strip(s) == rstrip(lstrip(s))

\* re.search of one literal alternative
IsSubstring(p, s) ==
    \E i \in 0 .. (Len(s) - Len(p)) : SubSeq(s, i + 1, i + Len(p)) = p

\* re.compile('|'.join(items)): the alternatives; joining nothing gives ''
re_compile(items) == IF items = {} THEN { <<>> } ELSE items

\* re.search(pattern, s) is not None
re_search(pattern, s) == \E p \in pattern : IsSubstring(p, s)

\* ------------------------------------------------------------- processes
\* subprocess.Popen(command, stdout=subprocess.PIPE): a running process
Popen == [running |-> TRUE, terminated |-> FALSE]

\* Popen.poll() is not None: the process has exited
poll_not_none(ps, h) == ~ps[h].running

\* Popen.terminate() on the process behind handle h
terminate(ps, h) == [ps EXCEPT ![h] = [running |-> FALSE, terminated |-> TRUE]]

\* stdout.readline(): a running process delivers a line (the read blocks until
\* one is there); an exited one delivers end-of-stream, b''
EOF == <<>>
readline(ps, h) == IF ps[h].running THEN Lines ELSE { EOF }

\* Mutant: stop_logcat with the test written "poll() is not None", which
\* sends terminate() only to a process that has already exited.
stop_logcat_procs_if_exited(ps, h) ==
    IF h # NoProc /\ poll_not_none(ps, h) THEN terminate(ps, h) ELSE ps

\* stop_logcat, the processes afterwards.  The test in the code is
\* "self.__logcat.poll is not None": the bound method itself, never None, so
\* terminate() is sent whenever a handle is held.
stop_logcat_procs(ps, h) == IF h # NoProc THEN terminate(ps, h) ELSE ps

\* variant: the reference is kept
stop_logcat_handle_kept(h) == h

\* stop_logcat, the handle afterwards
stop_logcat_handle(h) == NoProc

\* __check_logcat(auto_kill=False) raises LogcatWorkingError
check_logcat_raises(ps, h) == h # NoProc /\ poll_not_none(ps, h)

\* ------------------------------------------- read_logcat_while_lines parts
\* Mutant: the configured exit lines are not appended.
merge_end_lines_own_only(lines, exits) == lines

\* end_lines += self.__exit_lines (only when exit lines are configured)
merge_end_lines(lines, exits) ==
    IF exits # None THEN lines \o Val(exits) ELSE lines

\* Mutant: a deduplication that drops every entry that occurs twice.
compile_end_drop_repeated(lines) ==
    re_compile({ x \in Range(lines) :
                    Cardinality({ i \in DOMAIN lines : lines[i] = x }) = 1 })

\* pattern_end = re.compile('|'.join(set(end_lines)))
compile_end(lines) == re_compile(Range(lines))

\* pattern_start: compiled only when start_lines is truthy
compile_start(starts) ==
    IF starts # None /\ Val(starts) # <<>>
    THEN Some(re_compile(Range(Val(starts))))
    ELSE None

\* Mutant: accumulation is on from the first line whatever was passed.
initial_can_start_always(starts) == TRUE

\* can_start before the loop
initial_can_start(starts) == starts = None

\* Mutant: the deadline test with >= in place of >.
timed_out_at_deadline(t, e) == t # None /\ e >= Val(t)

\* the deadline test at the top of the loop
timed_out(t, e) == t # None /\ e > Val(t)

\* time.time() - start_time after a read that took d seconds.  The clock is
\* read only when a timeout was given; beyond MaxTimeout + 1 every deadline
\* test gives the same answer, so the value saturates there.
clock_after(t, e, d) ==
    IF t = None THEN e
    ELSE IF e + d > MaxTimeout + 1 THEN MaxTimeout + 1 ELSE e + d

\* re.search(pattern_start, log_str) with pattern_start None: TypeError
start_search_raises(cs, ps) == ~cs /\ ps = None

\* Mutant: a start match never switches accumulation on.
next_can_start_never(cs, ps, log_str) == cs

\* can_start after the start test of one iteration
next_can_start(cs, ps, log_str) == cs \/ re_search(Val(ps), log_str)

\* Mutant: the append without its blank-line test.
accumulate_blank_too(res, cs, log_str) ==
    IF cs THEN Append(res, log_str) ELSE res

\* Mutant: the new line is put at the front of the list.
accumulate_prepend(res, cs, log_str) ==
    IF cs /\ log_str # <<>> THEN << log_str >> \o res ELSE res

\* the append of one iteration
accumulate(res, cs, log_str) ==
    IF cs /\ log_str # <<>> THEN Append(res, log_str) ELSE res

\* Mutant: the stop test with a whole-line match in place of a search.
next_found_fullmatch(pe, log_str) == \E p \in pe : p = log_str

\* the stop test of one iteration
next_found(pe, log_str) == re_search(pe, log_str)

\* The loop of read_logcat_while_lines as a function of the lines it is
\* given (log_str values, in order), without the clock: the position at which
\* it stops (0: the lines ran out first, -1: the start test raised TypeError)
\* and the list accumulated by then.
RECURSIVE read_loop(_, _, _, _, _, _)
read_loop(stream, i, pe, ps, cs, res) ==
    IF i > Len(stream) THEN [stop |-> 0, result |-> res]
    ELSE IF start_search_raises(cs, ps) THEN [stop |-> -1, result |-> res]
    ELSE LET log_str == stream[i]
             cs2 == next_can_start(cs, ps, log_str)
             res2 == accumulate(res, cs2, log_str)
         IN  IF next_found(pe, log_str)
             THEN [stop |-> i, result |-> res2]
             ELSE read_loop(stream, i + 1, pe, ps, cs2, res2)

\* read_logcat_while_lines(ends, starts) over the given lines, ends being the
\* list after the exit lines were appended
read_while_lines(stream, ends, starts) ==
    read_loop(stream, 1, compile_end(ends), compile_start(starts),
              initial_can_start(starts), <<>>)

\* ------------------------------------------------- android_sdk.py, pure
\* The file system the paths are checked against.  A path is the sequence of
\* its components; no path holds an environment variable, so that
\* os.path.expandvars returns it as it is.
\*   sdk1  a whole SDK, two versions of the build tools
\*   sdk2  adb only, one version of the build tools, no tools directory
\*   sdk3  no platform-tools, an empty build-tools directory, the emulator
\*   sdk4  no platform-tools, no build-tools, no tools
Dirs ==
    { <<"sdk1">>, <<"sdk1", "platform-tools">>, <<"sdk1", "build-tools">>,
      <<"sdk1", "build-tools", "29">>, <<"sdk1", "build-tools", "30">>,
      <<"sdk1", "tools">>,
      <<"sdk2">>, <<"sdk2", "platform-tools">>, <<"sdk2", "build-tools">>,
      <<"sdk2", "build-tools", "30">>,
      <<"sdk3">>, <<"sdk3", "build-tools">>, <<"sdk3", "tools">>,
      <<"sdk4">>,
      <<"opt">> }

Files ==
    { <<"sdk1", "platform-tools", "adb">>,
      <<"sdk1", "build-tools", "29", "aapt">>,
      <<"sdk1", "build-tools", "29", "zipalign">>,
      <<"sdk1", "build-tools", "30", "aapt">>,
      <<"sdk1", "tools", "emulator">>,
      <<"sdk2", "platform-tools", "adb">>,
      <<"sdk2", "build-tools", "30", "aapt">>,
      <<"sdk3", "tools", "emulator">>,
      <<"opt", "tool">>,
      <<"notes">> }

\* every name of a directory entry above, in the order sorted() gives
SortedNames ==
    << "29", "30", "aapt", "adb", "build-tools", "emulator", "notes", "opt",
       "platform-tools", "sdk1", "sdk2", "sdk3", "sdk4", "tool", "tools",
       "zipalign" >>

\* SDK roots, explicit tool paths and auto_set lists a caller may pass
SdkPathChoices == { <<"sdk1">>, <<"sdk2">>, <<"sdk3">>, <<"sdk4">>,
                    <<"nowhere">>, <<"notes">> }
ToolPathChoices == { None, Some(<<"opt", "tool">>), Some(<<"nowhere">>),
                     Some(<<"opt">>) }
AutoSetChoices == { <<>>, <<"adb">>, <<"aapt">>, <<"emulator">>,
                    <<"adb", "aapt">>, <<"aapt", "zipalign">>,
                    <<"adb", "fastboot">> }

ToolNames == { "adb", "aapt", "zipalign", "emulator" }

\* os.path.exists, os.path.isdir, os.path.isfile
exists(path) == path \in Dirs \cup Files
isdir(path) == path \in Dirs
isfile(path) == path \in Files

\* os.path.join(path, name)
join(path, name) == Append(path, name)

\* sorted(os.listdir(path))
listdir(path) ==
    { SortedNames[i] : i \in { j \in DOMAIN SortedNames :
                                   exists(join(path, SortedNames[j])) } }
sorted(names) == SelectSeq(SortedNames, LAMBDA n : n \in names)

\* _path_checker: "ok" for True, or the name of the exception raised
path_checker(path, obj_type) ==
    IF exists(path)
    THEN IF obj_type = "dir"
         THEN IF isdir(path) THEN "ok" ELSE "IsADirectoryError"
         ELSE IF obj_type = "file"
         THEN IF isfile(path) THEN "ok" ELSE "FileNotFoundError"
         ELSE "AttributeError"
    ELSE "OSError"

\* what a method leaves behind: the fields and how it ended
Ended(fields, how) == [fields |-> fields, exc |-> how]

\* __get_build_tools_dir: the directory, or the exception raised.
\* os.path.join raises TypeError when self.__sdk is None, and when it is given
\* the list internal_dirs (the case of one installed version).
get_build_tools_dir(fields, last) ==
    IF fields.sdk = None THEN [exc |-> "TypeError", dir |-> <<>>]
    ELSE LET expected_build_tools == join(Val(fields.sdk), "build-tools")
             checked == path_checker(expected_build_tools, "dir")
             internal_dirs == sorted(listdir(expected_build_tools))
         IN  IF checked # "ok" THEN [exc |-> checked, dir |-> <<>>]
             ELSE IF internal_dirs = <<>>
                  THEN [exc |-> "OSError", dir |-> <<>>]
             ELSE IF Len(internal_dirs) = 1
                  THEN [exc |-> "TypeError", dir |-> <<>>]
             ELSE IF last
                  THEN [exc |-> "ok",
                        dir |-> join(expected_build_tools, Last(internal_dirs))]
                  ELSE [exc |-> "ValueError", dir |-> <<>>]

\* the path a tool setter looks at when it is given none: the exception
\* raised on the way, or the path
expected_path(fields, last, name) ==
    IF name \in { "adb", "emulator" }
    THEN IF fields.sdk = None THEN [exc |-> "TypeError", path |-> <<>>]
         ELSE [exc |-> "ok",
               path |-> join(join(Val(fields.sdk),
                                  IF name = "adb" THEN "platform-tools"
                                                  ELSE "tools"),
                             name)]
    ELSE LET build_tools == get_build_tools_dir(fields, last)
         IN  IF build_tools.exc # "ok"
             THEN [exc |-> build_tools.exc, path |-> <<>>]
             ELSE [exc |-> "ok", path |-> join(build_tools.dir, name)]

\* set_adb, set_aapt, set_zipalign, set_emulator (name says which): the path
\* given, or else the expected one, is checked and then stored
set_tool(fields, last, name, path) ==
    LET e == IF path # None THEN [exc |-> "ok", path |-> Val(path)]
                            ELSE expected_path(fields, last, name)
    IN  IF e.exc # "ok" THEN Ended(fields, e.exc)
        ELSE IF path_checker(e.path, "file") # "ok"
             THEN Ended(fields, path_checker(e.path, "file"))
        ELSE Ended([fields EXCEPT ![name] = Some(e.path)], "ok")

\* __auto_set: the setters in list order, up to the first that raises
RECURSIVE auto_set(_, _, _)
auto_set(fields, last, set_list) ==
    IF set_list = <<>> THEN Ended(fields, "ok")
    ELSE IF Head(set_list) \notin ToolNames
         THEN Ended(fields, "AttributeError")
    ELSE LET r == set_tool(fields, last, Head(set_list), None)
         IN  IF r.exc # "ok" THEN r
             ELSE auto_set(r.fields, last, Tail(set_list))

\* variant: the tools are looked up first, the SDK path is stored last
set_sdk_all_or_nothing(fields, last, path, set_list) ==
    IF path_checker(path, "dir") # "ok"
    THEN Ended(fields, path_checker(path, "dir"))
    ELSE LET r == auto_set([fields EXCEPT !.sdk = Some(path)], last, set_list)
         IN  IF r.exc # "ok" THEN Ended(fields, r.exc) ELSE r

\* set_sdk: the root is checked and stored, then the tools are looked up
set_sdk(fields, last, path, set_list) ==
    IF path_checker(path, "dir") # "ok"
    THEN Ended(fields, path_checker(path, "dir"))
    ELSE auto_set([fields EXCEPT !.sdk = Some(path)], last, set_list)

NoArgs == [path |-> None, auto_set |-> <<>>]

\* AndroidSdk() with no path: every field None.  (AndroidSdk(path, auto_set)
\* is this followed by set_sdk; when that raises there is no object.)
SdkObjInit(last) ==
    /\ android_sdk = [sdk |-> None, adb |-> None, aapt |-> None,
                      zipalign |-> None, emulator |-> None]
    /\ select_last = last
    /\ sdk_before = android_sdk
    /\ sdk_op = "init"
    /\ sdk_args = NoArgs
    /\ sdk_outcome = "ok"
    /\ sdk_returned = None

\* ---------------------------------------------------------------- state
AdbInit ==
    /\ logcat = NoProc
    /\ procs = <<>>
    /\ exit_lines = None
    /\ end_lines = <<>>
    /\ own_lines = <<>>
    /\ pc = "idle"
    /\ end_arg = <<>>
    /\ exit_arg = None
    /\ start_lines = None
    /\ timeout = None
    /\ pattern_start = None
    /\ pattern_end = {}
    /\ can_start = FALSE
    /\ found = FALSE
    /\ result = <<>>
    /\ elapsed = 0
    /\ lines_read = <<>>
    /\ eof_read = FALSE
    /\ op = "init"
    /\ outcome = "ok"

\* ------------------------------------------------------- adb.py, pure
\* what _get_adb may return, the serials a caller may pass to set_device
\* (None and '' among them), the property names, and what "getprop" may
\* print (ASCII only, so that decode gives the same characters)
AdbBinaries == { "adb", "/sdk/platform-tools/adb" }
Serials == { None, Some(""), Some("emulator-5554"), Some("0123456789ABCDEF") }
PropNames == { "ro.build.version.sdk" }
Outputs == { <<>>, <<"2", "9", "\n">>, <<"2", "9", "\r", "\n">> }

\* "if self._device": neither None nor the empty string
truthy(device) == device # None /\ Val(device) # ""

\* get_shell: the list self._shell refers to afterwards, built only when
\* self._shell is None
cached_shell(shell, adb, device) ==
    IF shell = None
    THEN IF truthy(device) THEN << adb, "-s", Val(device), "shell" >>
                           ELSE << adb, "shell" >>
    ELSE Val(shell)

\* str.split('\n')
RECURSIVE split(_)
split(text) ==
    IF \A i \in DOMAIN text : text[i] # "\n" THEN << text >>
    ELSE LET k == CHOOSE i \in DOMAIN text :
                      text[i] = "\n" /\ \A j \in 1..(i - 1) : text[j] # "\n"
         IN  << SubSeq(text, 1, k - 1) >>
                 \o split(SubSeq(text, k + 1, Len(text)))

\* _prepare_output: it returns the split output, not the stripped lines it
\* collected in result
prepare_output(output) == split(output)

\* Adb(custom_sdk_path), _get_adb having returned the binary
ShellObjInit(adb) ==
    /\ self_adb = adb
    /\ self_device = None
    /\ self_shell = None
    /\ self_op = "init"
    /\ self_returned = None

\* The objects as constructed
Init ==
    /\ AdbInit
    /\ SdkObjInit(TRUE)
    /\ ShellObjInit("adb")

\* The locals and the return value of the previous read_logcat_while_lines
\* call are gone once another method is called.
ForgetCall ==
    /\ end_arg' = <<>>
    /\ exit_arg' = None
    /\ start_lines' = None
    /\ timeout' = None
    /\ pattern_start' = None
    /\ pattern_end' = {}
    /\ can_start' = FALSE
    /\ found' = FALSE
    /\ result' = <<>>
    /\ elapsed' = 0
    /\ lines_read' = <<>>
    /\ eof_read' = FALSE

\* start_logcat(clear): __check_logcat, then (clear_logcat, which runs the
\* same check and "logcat -c"), then __execute_adb_popen.
StartLogcat ==
    /\ UNCHANGED << sdk_vars, cli_vars >>
    /\ pc = "idle"
    /\ \E clear \in BOOLEAN :
        IF check_logcat_raises(procs, logcat)
        THEN /\ outcome' = "LogcatWorkingError"
             /\ UNCHANGED << logcat, procs >>
        ELSE /\ Len(procs) < MaxProcs
             /\ procs' = Append(procs, Popen)
             /\ logcat' = Len(procs) + 1
             /\ outcome' = "ok"
    /\ op' = "start_logcat"
    /\ pc' = "idle"
    /\ ForgetCall
    /\ UNCHANGED << exit_lines, end_lines, own_lines >>

\* dump_logcat: __check_logcat, "logcat -d", stop_logcat
DumpLogcat ==
    /\ UNCHANGED << sdk_vars, cli_vars >>
    /\ pc = "idle"
    /\ IF check_logcat_raises(procs, logcat)
       THEN /\ outcome' = "LogcatWorkingError"
            /\ UNCHANGED << logcat, procs >>
       ELSE /\ procs' = stop_logcat_procs(procs, logcat)
            /\ logcat' = stop_logcat_handle(logcat)
            /\ outcome' = "ok"
    /\ op' = "dump_logcat"
    /\ pc' = "idle"
    /\ ForgetCall
    /\ UNCHANGED << exit_lines, end_lines, own_lines >>

\* clear_logcat: __check_logcat, "logcat -c"
ClearLogcat ==
    /\ UNCHANGED << sdk_vars, cli_vars >>
    /\ pc = "idle"
    /\ outcome' = IF check_logcat_raises(procs, logcat)
                  THEN "LogcatWorkingError" ELSE "ok"
    /\ op' = "clear_logcat"
    /\ pc' = "idle"
    /\ ForgetCall
    /\ UNCHANGED << logcat, procs, exit_lines, end_lines, own_lines >>

\* stop_logcat
StopLogcat ==
    /\ UNCHANGED << sdk_vars, cli_vars >>
    /\ pc = "idle"
    /\ procs' = stop_logcat_procs(procs, logcat)
    /\ logcat' = stop_logcat_handle(logcat)
    /\ outcome' = "ok"
    /\ op' = "stop_logcat"
    /\ pc' = "idle"
    /\ ForgetCall
    /\ UNCHANGED << exit_lines, end_lines, own_lines >>

\* read_logcat: communicate(timeout) either sees the process end by itself or
\* raises TimeoutExpired, after which the process is terminated; stop_logcat
\* then sends terminate in both cases.  The text returned is not modelled.
ReadLogcat ==
    /\ UNCHANGED << sdk_vars, cli_vars >>
    /\ pc = "idle"
    /\ IF logcat = NoProc
       THEN /\ outcome' = "LogcatNotDefinedError"
            /\ UNCHANGED << logcat, procs >>
       ELSE /\ procs' = stop_logcat_procs(procs, logcat)
            /\ logcat' = stop_logcat_handle(logcat)
            /\ outcome' = "ok"
    /\ op' = "read_logcat"
    /\ pc' = "idle"
    /\ ForgetCall
    /\ UNCHANGED << exit_lines, end_lines, own_lines >>

\* set_logcat_exit_lines(lines), lines a list
SetLogcatExitLines ==
    /\ UNCHANGED << sdk_vars, cli_vars >>
    /\ pc = "idle"
    /\ \E lines \in ExitLinesChoices : exit_lines' = Some(lines)
    /\ outcome' = "ok"
    /\ op' = "set_logcat_exit_lines"
    /\ pc' = "idle"
    /\ ForgetCall
    /\ UNCHANGED << logcat, procs, end_lines, own_lines >>

\* clear_logcat_exit_lines
ClearLogcatExitLines ==
    /\ UNCHANGED << sdk_vars, cli_vars >>
    /\ pc = "idle"
    /\ exit_lines' = None
    /\ outcome' = "ok"
    /\ op' = "clear_logcat_exit_lines"
    /\ pc' = "idle"
    /\ ForgetCall
    /\ UNCHANGED << logcat, procs, end_lines, own_lines >>

\* read_logcat_while_lines up to the loop.  The caller passes a new list or
\* the list object of the previous call.
ReadWhileLinesCall ==
    /\ UNCHANGED << sdk_vars, cli_vars >>
    /\ pc = "idle"
    /\ \E new \in { Some(l) : l \in EndLinesChoices } \cup { None },
          starts \in StartLinesChoices,
          t \in TimeoutChoices :
        LET arg == IF new = None THEN end_lines ELSE Val(new) IN
        /\ own_lines' = IF new = None THEN own_lines ELSE Val(new)
        /\ IF logcat = NoProc
           THEN /\ outcome' = "LogcatNotDefinedError"
                /\ pc' = "idle"
                /\ end_lines' = arg
                /\ end_arg' = <<>>
                /\ exit_arg' = None
                /\ start_lines' = None
                /\ timeout' = None
                /\ pattern_start' = None
                /\ pattern_end' = {}
                /\ can_start' = FALSE
           ELSE /\ Len(merge_end_lines(arg, exit_lines)) <= MaxEndLen
                /\ end_arg' = arg
                /\ exit_arg' = exit_lines
                /\ start_lines' = starts
                /\ timeout' = t
                /\ outcome' = "running"
                /\ pc' = "loop"
                /\ end_lines' = merge_end_lines(arg, exit_lines)
                /\ pattern_start' = compile_start(starts)
                /\ pattern_end' = compile_end(merge_end_lines(arg, exit_lines))
                /\ can_start' = initial_can_start(starts)
    /\ found' = FALSE
    /\ result' = <<>>
    /\ elapsed' = 0
    /\ lines_read' = <<>>
    /\ eof_read' = FALSE
    /\ op' = "read_logcat_while_lines"
    /\ UNCHANGED << logcat, procs, exit_lines >>

\* One pass of "while not found": the deadline test, one readline, the start
\* test, the append, the stop test, and, when the loop ends, stop_logcat and
\* the return.
ReadWhileLinesIter ==
    /\ UNCHANGED << sdk_vars, cli_vars >>
    /\ pc = "loop"
    /\ IF timed_out(timeout, elapsed)
       THEN /\ procs' = stop_logcat_procs(procs, logcat)
            /\ logcat' = stop_logcat_handle(logcat)
            /\ outcome' = "TimeoutError"
            /\ pc' = "idle"
            /\ UNCHANGED << can_start, found, result, elapsed, lines_read,
                            eof_read >>
       ELSE /\ Len(lines_read) < MaxReads
            /\ \E raw \in readline(procs, logcat), d \in ReadDelays :
                LET log_str == strip(raw) IN
                /\ elapsed' = clock_after(timeout, elapsed, d)
                /\ lines_read' = Append(lines_read, log_str)
                /\ eof_read' = (eof_read \/ ~procs[logcat].running)
                /\ IF start_search_raises(can_start, pattern_start)
                   THEN /\ outcome' = "TypeError"
                        /\ pc' = "idle"
                        /\ UNCHANGED << can_start, found, result, logcat,
                                        procs >>
                   ELSE LET cs == next_can_start(can_start, pattern_start,
                                                 log_str)
                            fnd == next_found(pattern_end, log_str)
                        IN  /\ can_start' = cs
                            /\ result' = accumulate(result, cs, log_str)
                            /\ found' = fnd
                            /\ IF fnd
                               THEN /\ procs' = stop_logcat_procs(procs, logcat)
                                    /\ logcat' = stop_logcat_handle(logcat)
                                    /\ outcome' = "return"
                                    /\ pc' = "idle"
                               ELSE /\ UNCHANGED << logcat, procs, outcome,
                                                    pc >>
    /\ UNCHANGED << exit_lines, end_lines, own_lines, end_arg, exit_arg,
                    start_lines, timeout, pattern_start, pattern_end, op >>

\* The logcat process ends by itself (the device disconnects, adb dies).
ProcExit ==
    /\ UNCHANGED << sdk_vars, cli_vars >>
    /\ \E p \in DOMAIN procs :
        /\ procs[p].running
        /\ procs' = [procs EXCEPT ![p].running = FALSE]
    /\ UNCHANGED << logcat, exit_lines, end_lines, own_lines, pc, end_arg,
                    exit_arg, start_lines, timeout, pattern_start, pattern_end,
                    can_start, found, result, elapsed, lines_read, eof_read,
                    op, outcome >>

Next ==
    \/ StartLogcat
    \/ DumpLogcat
    \/ ClearLogcat
    \/ StopLogcat
    \/ ReadLogcat
    \/ SetLogcatExitLines
    \/ ClearLogcatExitLines
    \/ ReadWhileLinesCall
    \/ ReadWhileLinesIter
    \/ ProcExit

Spec == Init /\ [][Next]_vars

\* ------------------------------------------------ android_sdk.py, state
\* A setter called with the given path (None: look the tool up under the SDK)
SetToolCall(name, method) ==
    /\ \E path \in ToolPathChoices :
        LET r == set_tool(android_sdk, select_last, name, path) IN
        /\ android_sdk' = r.fields
        /\ sdk_outcome' = r.exc
        /\ sdk_args' = [path |-> path, auto_set |-> <<>>]
    /\ sdk_before' = android_sdk
    /\ sdk_op' = method
    /\ sdk_returned' = None
    /\ UNCHANGED select_last
    /\ UNCHANGED << adb_vars, cli_vars >>

\* A getter
GetCall(name, method) ==
    /\ sdk_returned' = android_sdk[name]
    /\ sdk_outcome' = "ok"
    /\ sdk_args' = NoArgs
    /\ sdk_before' = android_sdk
    /\ sdk_op' = method
    /\ UNCHANGED << android_sdk, select_last >>
    /\ UNCHANGED << adb_vars, cli_vars >>

\* set_sdk(path, auto_set)
SetSdk ==
    /\ \E path \in SdkPathChoices, set_list \in AutoSetChoices :
        LET r == set_sdk(android_sdk, select_last, path, set_list) IN
        /\ android_sdk' = r.fields
        /\ sdk_outcome' = r.exc
        /\ sdk_args' = [path |-> Some(path), auto_set |-> set_list]
    /\ sdk_before' = android_sdk
    /\ sdk_op' = "set_sdk"
    /\ sdk_returned' = None
    /\ UNCHANGED select_last
    /\ UNCHANGED << adb_vars, cli_vars >>

SetAdb == SetToolCall("adb", "set_adb")
SetAapt == SetToolCall("aapt", "set_aapt")
SetZipalign == SetToolCall("zipalign", "set_zipalign")
SetEmulator == SetToolCall("emulator", "set_emulator")
GetSdk == GetCall("sdk", "get_sdk")
GetAdb == GetCall("adb", "get_adb")
GetAapt == GetCall("aapt", "get_aapt")
GetZipalign == GetCall("zipalign", "get_zipalign")
GetEmulator == GetCall("emulator", "get_emulator")

\* AndroidSdk(select_last=...) beside an AndroidAdb nobody calls
SdkInit ==
    /\ AdbInit
    /\ \E last \in BOOLEAN : SdkObjInit(last)
    /\ ShellObjInit("adb")

SdkNext ==
    \/ SetSdk
    \/ SetAdb
    \/ SetAapt
    \/ SetZipalign
    \/ SetEmulator
    \/ GetSdk
    \/ GetAdb
    \/ GetAapt
    \/ GetZipalign
    \/ GetEmulator

SpecSdk == SdkInit /\ [][SdkNext]_vars

\* ---------------------------------------------------------- adb.py, state
\* set_device(serial)
SetDevice ==
    /\ \E serial \in Serials : self_device' = serial
    /\ self_op' = "set_device"
    /\ self_returned' = None
    /\ UNCHANGED << self_adb, self_shell >>
    /\ UNCHANGED << adb_vars, sdk_vars >>

\* get_shell()
GetShell ==
    /\ self_shell' = Some(cached_shell(self_shell, self_adb, self_device))
    /\ self_returned' = self_shell'
    /\ self_op' = "get_shell"
    /\ UNCHANGED << self_adb, self_device >>
    /\ UNCHANGED << adb_vars, sdk_vars >>

\* get_properties(prop): _execute_shell_command runs the prefix get_shell()
\* gives, followed by "getprop" and prop, and returns the first element of
\* what _prepare_output makes of its output
GetProperties ==
    /\ self_shell' = Some(cached_shell(self_shell, self_adb, self_device))
    /\ \E prop \in PropNames, output \in Outputs :
          self_returned' = Some(prepare_output(output)[1])
    /\ self_op' = "get_properties"
    /\ UNCHANGED << self_adb, self_device >>
    /\ UNCHANGED << adb_vars, sdk_vars >>

\* Adb(custom_sdk_path) beside the other two objects, which nobody calls
ShellInit ==
    /\ AdbInit
    /\ SdkObjInit(TRUE)
    /\ \E adb \in AdbBinaries : ShellObjInit(adb)

ShellNext ==
    \/ SetDevice
    \/ GetShell
    \/ GetProperties

SpecShell == ShellInit /\ [][ShellNext]_vars

\* ===================================================================
\* Vocabulary of the properties, stated over the arguments of the call and
\* the lines it read, not over the patterns the code compiled.

InReadWhileLines == op = "read_logcat_while_lines"
Returned == InReadWhileLines /\ pc = "idle" /\ outcome = "return"
TimedOut == InReadWhileLines /\ pc = "idle" /\ outcome = "TimeoutError"

\* the exit lines configured when the call was entered
ExitSet == IF exit_arg = None THEN {} ELSE Range(Val(exit_arg))
\* the union of the end_lines passed and the configured exit lines
StopSet == Range(end_arg) \cup ExitSet
StopMatches(line) == \E p \in StopSet : IsSubstring(p, line)
StartSet == IF start_lines = None THEN {} ELSE Range(Val(start_lines))
StartMatches(line) == \E p \in StartSet : IsSubstring(p, line)
NonBlank(line) == strip(line) # <<>>

\* index of the first line read that matches a stop (start) pattern, or 0
FirstStop ==
    IF \E i \in DOMAIN lines_read : StopMatches(lines_read[i])
    THEN CHOOSE i \in DOMAIN lines_read :
            /\ StopMatches(lines_read[i])
            /\ \A j \in 1 .. (i - 1) : ~StopMatches(lines_read[j])
    ELSE 0
FirstStart ==
    IF \E i \in DOMAIN lines_read : StartMatches(lines_read[i])
    THEN CHOOSE i \in DOMAIN lines_read :
            /\ StartMatches(lines_read[i])
            /\ \A j \in 1 .. (i - 1) : ~StartMatches(lines_read[j])
    ELSE 0

\* the non-blank lines read from position k on, in stream order
NonBlankFrom(k) == SelectSeq(SubSeq(lines_read, k, Len(lines_read)), NonBlank)

\* -------------------------------------------------------------------
\* C1 as stated: a call without start patterns that returns has read up to
\* the first stop-matching line and no further, and its list ends with that
\* line.
C1_EndsWithStopLine ==
    (Returned /\ start_lines = None /\ StopSet # {}) =>
        /\ FirstStop = Len(lines_read)
        /\ result # <<>>
        /\ Last(result) = lines_read[FirstStop]

\* C1 (amended): a call without start patterns that returns has read up to the
\* first stop-matching line and no further; its list is the non-blank lines
\* read, so it ends with the stop-matching line whenever that line is not
\* blank, and leaves it out when it is blank.
C1_StopsAtFirstStopLine ==
    (Returned /\ start_lines = None /\ StopSet # {}) =>
        /\ FirstStop = Len(lines_read)
        /\ result = NonBlankFrom(1)
        /\ NonBlank(lines_read[FirstStop]) =>
              (result # <<>> /\ Last(result) = lines_read[FirstStop])
        /\ ~NonBlank(lines_read[FirstStop]) =>
              (\A i \in DOMAIN result : result[i] # lines_read[FirstStop])

\* a stream [a, blank, b] read to its stop line b
C1_Witness ==
    /\ Returned
    /\ start_lines = None
    /\ <<>> \notin StopSet
    /\ Len(lines_read) = 3
    /\ ~NonBlank(lines_read[2])
    /\ result = << lines_read[1], lines_read[3] >>

\* C2 as stated (for a stop-matching line that is not blank): whenever the
\* call returns on a stop-matching line, that line is the last element of the
\* list, whatever the start patterns.
C2_StopLineAlwaysLast ==
    (Returned /\ StopMatches(Last(lines_read)) /\ NonBlank(Last(lines_read))) =>
        (result # <<>> /\ Last(result) = Last(lines_read))

\* C2 (amended): when the call returns on a stop-matching line, that line is
\* the last element of the list provided it is not blank and accumulation has
\* started (no start patterns, or this or an earlier line matched one); a
\* stop-matching line that arrives before any start-matching line ends the
\* call with an empty list.
C2_StopLineLastOnceStarted ==
    (Returned /\ StopMatches(Last(lines_read))) =>
        LET started == start_lines = None \/ FirstStart # 0 IN
        /\ (started /\ NonBlank(Last(lines_read))) =>
              (result # <<>> /\ Last(result) = Last(lines_read))
        /\ ~started => result = <<>>

\* a start line, then later the stop line
C2_Witness ==
    /\ Returned
    /\ start_lines # None
    /\ FirstStart # 0
    /\ FirstStart < Len(lines_read)
    /\ StopMatches(Last(lines_read))
    /\ ~StartMatches(Last(lines_read))
    /\ result # <<>>
    /\ Last(result) = Last(lines_read)

\* the calls C3 is about: a non-empty start list, while the loop runs and
\* after it ended by a return or a timeout
C3_Case ==
    /\ InReadWhileLines
    /\ start_lines # None
    /\ Val(start_lines) # <<>>
    /\ outcome \in { "running", "return", "TimeoutError" }

\* C3 as stated: nothing read before the first start-matching line is in the
\* list, and that line itself is.
C3_StartLineIncluded ==
    C3_Case =>
        /\ FirstStart = 0 => result = <<>>
        /\ FirstStart # 0 =>
              /\ Len(result) <= Len(lines_read) - FirstStart + 1
              /\ result # <<>>
              /\ Head(result) = lines_read[FirstStart]

\* C3 (amended): the list holds only lines read from the first start-matching
\* line on (their non-blank ones, in order), and that line itself heads the
\* list unless it is blank.
C3_NothingBeforeStart ==
    C3_Case =>
        /\ FirstStart = 0 => result = <<>>
        /\ FirstStart # 0 =>
              /\ result = NonBlankFrom(FirstStart)
              /\ NonBlank(lines_read[FirstStart]) =>
                    (result # <<>> /\ Head(result) = lines_read[FirstStart])

\* a non-blank line, then the first start-matching line
C3_Witness ==
    /\ C3_Case
    /\ FirstStart = 2
    /\ NonBlank(lines_read[1])
    /\ result # <<>>
    /\ Head(result) = lines_read[2]

\* C4: in every state of the loop and after it, no element of the list is
\* empty or whitespace-only.
C4_NoBlankInResult == \A i \in DOMAIN result : NonBlank(result[i])

\* a blank line read after accumulation had begun
C4_Witness ==
    /\ Returned
    /\ start_lines # None
    /\ FirstStart = 1
    /\ Len(lines_read) = 3
    /\ ~NonBlank(lines_read[2])
    /\ result = << lines_read[1], lines_read[3] >>

\* -------------------------------------------------------------------
\* C5 as stated (for a positive timeout): a call does not return a list once
\* the timeout has elapsed without a stop match.  elapsed is the time at which
\* the read that delivered the stop-matching line came back.
C5_NoReturnAfterDeadline ==
    (Returned /\ timeout # None /\ Val(timeout) > 0) => elapsed <= Val(timeout)

\* C5 (amended): the deadline is tested before each read.  When a test finds
\* the timeout elapsed, the call ends with TimeoutError, the logcat process
\* has been terminated by then, and no line read had matched a stop pattern;
\* a read begun before the deadline still ends the call with a list when the
\* line it delivers matches, however late it comes back.
C5_TimeoutAtDeadlineTest ==
    /\ [][ (pc = "loop" /\ timeout # None /\ elapsed > Val(timeout)
              /\ << pc, lines_read, result, outcome >>'
                   # << pc, lines_read, result, outcome >>)
           => (pc' = "idle" /\ outcome' = "TimeoutError") ]_vars
    /\ [][ (pc = "loop" /\ outcome' = "TimeoutError")
           => /\ timeout # None
              /\ elapsed > Val(timeout)
              /\ \A i \in DOMAIN lines_read : ~StopMatches(lines_read[i])
              /\ logcat # NoProc
              /\ procs'[logcat].terminated
              /\ ~procs'[logcat].running
              /\ result' = result ]_vars

\* a timeout after lines were read
C5_Witness ==
    /\ TimedOut
    /\ lines_read # <<>>
    /\ result # <<>>
    /\ logcat = NoProc
    /\ \E p \in DOMAIN procs : procs[p].terminated

C7_StreamClosedIsAnError ==
    ( /\ InReadWhileLines
      /\ eof_read
      /\ StopSet # {}
      /\ \A i \in DOMAIN lines_read : ~StopMatches(lines_read[i]) )
    => ( /\ pc = "idle"
         /\ outcome \notin { "running", "return", "TimeoutError" } )

\* C8: every process the object spawned and no longer references has been
\* terminated, so at most one is running.
C8_NoOrphanProcess ==
    /\ \A p \in DOMAIN procs : p # logcat => procs[p].terminated
    /\ Cardinality({ p \in DOMAIN procs : procs[p].running }) <= 1

\* the calls C9 is about, while the loop runs and after it returned
C9_Case == InReadWhileLines /\ outcome \in { "running", "return" }
C9_StopsOnUnion ==
    /\ \A i \in 1 .. (Len(lines_read) - 1) : ~StopMatches(lines_read[i])
    /\ (pc = "loop" /\ lines_read # <<>>) => ~StopMatches(Last(lines_read))
    /\ Returned => StopMatches(Last(lines_read))
    /\ (Returned /\ exit_arg = None) =>
          \E p \in Range(end_arg) : IsSubstring(p, Last(lines_read))

\* C9 as stated: the read ends on the first line that matches a member of
\* end_lines or of the configured exit lines, and on nothing else; without
\* exit lines, only on a member of end_lines.
C9_UnionIsStopSet == C9_Case => C9_StopsOnUnion

\* C9 (amended): the same, provided the union is not empty; with end_lines
\* empty and no (or empty) exit lines the compiled pattern is the empty
\* regex, and the read ends on the first line read.
C9_NonEmptyUnionIsStopSet ==
    C9_Case =>
        IF StopSet # {} THEN C9_StopsOnUnion
        ELSE (lines_read # <<>> => (Returned /\ Len(lines_read) = 1))

\* end_lines ['a'] with exit lines ['b']: the read went past a line and ended
\* on an exit line that is not in end_lines
C9_Witness ==
    /\ Returned
    /\ exit_arg # None
    /\ ExitSet # {}
    /\ Len(lines_read) >= 2
    /\ ~(\E p \in Range(end_arg) : IsSubstring(p, Last(lines_read)))
    /\ \E p \in ExitSet : IsSubstring(p, Last(lines_read))

\* a list without its repeated entries, first occurrences kept
RECURSIVE Dedup(_)
Dedup(s) ==
    IF s = <<>> THEN <<>>
    ELSE LET r == Dedup(SubSeq(s, 1, Len(s) - 1))
         IN  IF Last(s) \in Range(r) THEN r ELSE Append(r, Last(s))

\* C10: over the lines the call has read, the same call made with the stop
\* list stripped of its duplicates stops at the same line (or, like the call,
\* not yet, or on the same TypeError) and gives the same list.
C10_DuplicatesChangeNothing ==
    (InReadWhileLines /\ outcome # "LogcatNotDefinedError") =>
        LET r == read_while_lines(lines_read, Dedup(end_lines), start_lines)
        IN  /\ r.result = result
            /\ r.stop = CASE outcome = "return" -> Len(lines_read)
                           [] outcome = "TypeError" -> -1
                           [] OTHER -> 0

\* a stop list with a repeated entry, and a read of several lines
C10_Witness ==
    /\ Returned
    /\ Dedup(end_lines) # end_lines
    /\ Len(lines_read) >= 2
    /\ result # <<>>

\* -------------------------------------------------------------------
\* C11: with start patterns given and the first stop-matching line at or
\* after the first start-matching line, a call that returns has read up to
\* that stop line and returns exactly the non-blank lines from the first
\* start-matching line through it, in stream order.
C11_StartThroughStop ==
    ( /\ Returned
      /\ start_lines # None
      /\ FirstStart # 0
      /\ FirstStart <= FirstStop )
    => ( /\ FirstStop = Len(lines_read)
         /\ result = NonBlankFrom(FirstStart) )

\* the start line, a blank line, and the stop line, which is another line
C11_Witness ==
    /\ Returned
    /\ start_lines # None
    /\ FirstStart = 1
    /\ FirstStop = 3
    /\ ~NonBlank(lines_read[2])
    /\ lines_read[1] # lines_read[3]
    /\ result = << lines_read[1], lines_read[3] >>

\* -------------------------------------------------------------------
\* the session's process is still running (the handle is set and the process
\* has not ended)
SessionRunning == logcat # NoProc /\ procs[logcat].running

\* C13: start_logcat, dump_logcat and clear_logcat raise LogcatWorkingError
\* exactly when the previously started logcat process is still running, and
\* then spawn no process and leave the handle unchanged; with the previous
\* process ended, or with no session, they do not raise.
\* The code raises on the opposite test (poll() is not None: the process has
\* ended), so TLC finds this violated.
C13_RaisesExactlyWhenRunning ==
    [][ (StartLogcat \/ DumpLogcat \/ ClearLogcat)
        => /\ (outcome' = "LogcatWorkingError") <=> SessionRunning
           /\ (outcome' = "LogcatWorkingError")
                  => (procs' = procs /\ logcat' = logcat) ]_vars

\* the calls after which the object has no session
C14_SessionEnded ==
    \/ op \in { "init", "stop_logcat", "read_logcat" }
    \/ op = "dump_logcat" /\ outcome = "ok"
    \/ Returned
    \/ TimedOut

\* a step that calls read_logcat or read_logcat_while_lines
C14_ReadCalled ==
    /\ pc = "idle"
    /\ op' \in { "read_logcat", "read_logcat_while_lines" }
    /\ ~ProcExit

C15_OnlyCallerPatternsAfterClear ==
    ( /\ Returned
      /\ exit_arg = None
      /\ own_lines # <<>> )
    => \E p \in Range(own_lines) : IsSubstring(p, Last(lines_read))

\* C16: read_logcat_while_lines leaves the caller's end_lines list and the
\* configured exit lines as they were when the call was entered, whether it
\* returns or raises.
\* The code extends the caller's list in place, so TLC finds this violated.
C16_EndLinesUnchanged ==
    ( /\ InReadWhileLines
      /\ pc = "idle"
      /\ outcome # "LogcatNotDefinedError" )
    => ( /\ end_lines = end_arg
         /\ exit_lines = exit_arg )

\* C17: stop_logcat, called in any state, ends with the handle None; it calls
\* terminate on a process only if that process is the session's and is still
\* alive; called with no session (so also a second time in a row) it
\* terminates nothing.
\* The code tests the bound method poll, not its result, and calls terminate
\* on a process that has already ended, so TLC finds this violated.
C17_TerminateOnlyIfAlive ==
    [][ StopLogcat
        => /\ logcat' = NoProc
           /\ outcome' = "ok"
           /\ \A p \in DOMAIN procs :
                 procs'[p] # procs[p] => (p = logcat /\ procs[p].running)
      ]_vars

\* C18: the deadline is tested only before each read, so a call that has
\* entered the loop finishes only by a stop match or, with a timeout set, by
\* TimeoutError; with timeout None it finishes by a stop match or not at all.
\* A call given start_lines = [] leaves the loop on a TypeError, with or
\* without a timeout, so TLC finds this violated.
C18_FinishesByStopOrTimeout ==
    [][ (pc = "loop" /\ pc' = "idle")
        => \/ outcome' = "return"
           \/ timeout # None /\ outcome' = "TimeoutError" ]_vars

\* C19: a call given start_lines = [] behaves as the same call given
\* start_lines = None: over the lines it has read, it raises nothing the other
\* does not, has accumulated the same list, and returns where the other does.
\* The code raises TypeError on the first line read, so TLC finds this
\* violated.
C19_EmptyStartListLikeNone ==
    ( /\ InReadWhileLines
      /\ outcome # "LogcatNotDefinedError"
      /\ start_lines = Some(<<>>) )
    => LET r == read_while_lines(lines_read, end_lines, None)
       IN  /\ outcome # "TypeError"
           /\ r.result = result
           /\ r.stop = IF outcome = "return" THEN Len(lines_read) ELSE 0

\* C20: clear_logcat leaves the handle and the processes as they are;
\* dump_logcat, when it returns, leaves the handle None and has terminated
\* every logcat process of this object that was streaming before the call.
\* A process that an earlier start_logcat left unreferenced (C8) is still
\* streaming after dump_logcat, so TLC finds this violated.
C20_ClearKeepsDumpEnds ==
    [][ /\ ClearLogcat => (logcat' = logcat /\ procs' = procs)
        /\ (DumpLogcat /\ outcome' = "ok")
              => /\ logcat' = NoProc
                 /\ \A p \in DOMAIN procs :
                       procs[p].running => procs'[p].terminated
      ]_vars

\* -------------------------------------------------------------------
SdkSetters == { "set_sdk", "set_adb", "set_aapt", "set_zipalign",
                "set_emulator" }
SdkRaised == sdk_op \in SdkSetters /\ sdk_outcome # "ok"

\* a stored or returned value is None or a path of the kind the check accepts
IsChecked(name, value) ==
    \/ value = None
    \/ name = "sdk" /\ exists(Val(value)) /\ isdir(Val(value))
    \/ name # "sdk" /\ exists(Val(value)) /\ isfile(Val(value))

\* the setter called has to find a path that does not exist: the one it was
\* given, or the one it looks up under the SDK path it holds
C12_PathMissing ==
    /\ sdk_op \in SdkSetters
    /\ IF sdk_args.path # None
       THEN ~exists(Val(sdk_args.path))
       ELSE LET e == expected_path(sdk_before, select_last,
                                   CHOOSE n \in ToolNames :
                                       sdk_op = "set_" \o n)
            IN  e.exc = "ok" /\ ~exists(e.path)

\* set_sdk, its root being a directory, has to look up a listed tool whose
\* file does not exist under that root
C12_ToolMissingInLookup ==
    /\ sdk_op = "set_sdk"
    /\ path_checker(Val(sdk_args.path), "dir") = "ok"
    /\ \E n \in Range(sdk_args.auto_set) \cap ToolNames :
          LET e == expected_path([sdk_before EXCEPT !.sdk = sdk_args.path],
                                 select_last, n)
          IN  e.exc = "ok" /\ ~exists(e.path)

C12_GettersChecked ==
    /\ \A name \in DOMAIN android_sdk : IsChecked(name, android_sdk[name])
    /\ sdk_op = "get_sdk" => IsChecked("sdk", sdk_returned)
    /\ sdk_op \in { "get_adb", "get_aapt", "get_zipalign", "get_emulator" }
          => IsChecked("adb", sdk_returned)

\* C12 as stated: set_sdk and the tool setters raise when the SDK root or the
\* tool file does not exist, a setter that raises leaves the stored SDK path
\* and tool paths as they were, and a getter returns None or a checked path.
\* set_sdk stores the root before it looks the tools up, so TLC finds this
\* violated.
C12_FailedSetterChangesNothing ==
    /\ C12_PathMissing => sdk_outcome = "OSError"
    /\ C12_ToolMissingInLookup => sdk_outcome # "ok"
    /\ SdkRaised => android_sdk = sdk_before
    /\ C12_GettersChecked

\* set_sdk raised while looking the listed tools up, the root being a
\* directory
C12_RaisedInAutoSet ==
    /\ sdk_op = "set_sdk"
    /\ sdk_outcome # "ok"
    /\ path_checker(Val(sdk_args.path), "dir") = "ok"

\* C12 (amended): the setters raise when the path does not exist and a getter
\* returns None or a checked path; a tool setter that raises, and a set_sdk
\* that raises on its root, leave every stored path as it was; a set_sdk that
\* raises while looking the listed tools up has stored the new SDK path and
\* the tools listed before the one that failed, and left the others as they
\* were.
C12_FailedSetterKeepsAllButSdkLookup ==
    /\ C12_PathMissing => sdk_outcome = "OSError"
    /\ C12_ToolMissingInLookup => sdk_outcome # "ok"
    /\ (SdkRaised /\ ~C12_RaisedInAutoSet) => android_sdk = sdk_before
    /\ C12_RaisedInAutoSet
          => /\ android_sdk.sdk = sdk_args.path
             /\ \E k \in 1..Len(sdk_args.auto_set) :
                   LET done == SubSeq(sdk_args.auto_set, 1, k - 1)
                       r == auto_set([sdk_before EXCEPT !.sdk = sdk_args.path],
                                     select_last, done)
                   IN  /\ r.exc = "ok"
                       /\ android_sdk = r.fields
                       /\ \A n \in ToolNames \ Range(done) :
                             android_sdk[n] = sdk_before[n]
    /\ C12_GettersChecked

\* set_sdk on an object that held sdk1 and its adb: the new root exists, adb
\* is found under it, the build tools are not; the call raised with the SDK
\* path and adb replaced
C12_Witness ==
    /\ C12_RaisedInAutoSet
    /\ sdk_args.auto_set = <<"adb", "aapt">>
    /\ sdk_before.sdk = Some(<<"sdk1">>)
    /\ sdk_before.adb = Some(<<"sdk1", "platform-tools", "adb">>)
    /\ android_sdk.sdk = Some(<<"sdk2">>)
    /\ android_sdk.adb = Some(<<"sdk2", "platform-tools", "adb">>)
    /\ android_sdk.aapt = sdk_before.aapt

\* -------------------------------------------------------------------
\* C21: after any sequence of set_device, get_shell and get_properties calls,
\* what get_shell returns targets the serial of the most recent set_device:
\* [adb, '-s', serial, 'shell'] with a device set, [adb, 'shell'] with none,
\* also when set_device is called after an earlier get_shell.
\* get_shell builds the prefix once and returns that list ever after, so TLC
\* finds this violated.
C21_ShellTargetsLastDevice ==
    self_op = "get_shell"
    => self_returned =
          Some(IF truthy(self_device)
               THEN << self_adb, "-s", Val(self_device), "shell" >>
               ELSE << self_adb, "shell" >>)

====
